---- MODULE Spec2Model ----
(***************************************************************************)
(* The two computational notebooks of the repository.                      *)
(*                                                                         *)
(*   Fits_images.ipynb   logScaleImage (percentile limits, log stretch)    *)
(*                       and colorize (screen blend of coloured bands)     *)
(*   unnamed/part_000    cov_to_ellipse and plot_ellipse (covariance       *)
(*                       matrix to 1-sigma ellipse)                        *)
(*                                                                         *)
(* Floating point numbers are modelled as exact rationals plus the IEEE    *)
(* specials NaN, +Inf and -Inf; signed zeros are not distinguished.  The   *)
(* logarithm is a fixed-point base-2 logarithm (the stretch is a ratio of  *)
(* two logarithms, so the base cancels).  The library calls of the         *)
(* notebooks (astropy.visualization, numpy, scipy.linalg.svd) are modelled *)
(* by what the releases of the notebook's kernel (Python 3.5) compute.     *)
(***************************************************************************)
EXTENDS Integers, Sequences, FiniteSets, TLC

(***************************************************************************)
(* Bounds of the model.                                                    *)
(***************************************************************************)
\* pixels of an image (images are flattened, row-major)
NPix == 3
\* images passed to one colorize call
MaxArgs == 2
\* fractional bits of the fixed-point logarithm
LogFracBits == 4
\* bits of the mantissa the fixed-point logarithm squares
MantBits == 12

(***************************************************************************)
(* Floating point values.                                                  *)
(***************************************************************************)
Abs(i) == IF i < 0 THEN -i ELSE i

RECURSIVE Gcd(_, _)
Gcd(a, b) == IF b = 0 THEN a ELSE Gcd(b, a % b)

RECURSIVE Pow2(_)
Pow2(k) == IF k = 0 THEN 1 ELSE 2 * Pow2(k - 1)

NaN == [k |-> "nan", n |-> 0, d |-> 1]
PInf == [k |-> "pinf", n |-> 0, d |-> 1]
NInf == [k |-> "ninf", n |-> 0, d |-> 1]

\* the float n/d, in lowest terms with a positive denominator (d # 0)
Rat(n, d) ==
    LET g == Gcd(Abs(n), Abs(d))
        s == IF d < 0 THEN -1 ELSE 1
    IN [k |-> "fin", n |-> (s * n) \div g, d |-> (s * d) \div g]

Num(i) == Rat(i, 1)
Zero == Num(0)
One == Num(1)

IsFinite(x) == x.k = "fin"
IsNaN(x) == x.k = "nan"

\* -1, 0 or 1; NaN has no sign and is never asked for one
Sign(x) ==
    CASE x.k = "pinf" -> 1
      [] x.k = "ninf" -> -1
      [] OTHER -> IF x.n > 0 THEN 1 ELSE IF x.n < 0 THEN -1 ELSE 0

Signed(s) == IF s > 0 THEN PInf ELSE NInf

FNeg(x) ==
    CASE x.k = "nan" -> NaN
      [] x.k = "pinf" -> NInf
      [] x.k = "ninf" -> PInf
      [] OTHER -> Rat(-x.n, x.d)

FAdd(x, y) ==
    CASE IsNaN(x) \/ IsNaN(y) -> NaN
      [] IsFinite(x) /\ IsFinite(y) -> Rat(x.n * y.d + y.n * x.d, x.d * y.d)
      [] IsFinite(x) -> y
      [] IsFinite(y) -> x
      [] OTHER -> IF x = y THEN x ELSE NaN

FSub(x, y) == FAdd(x, FNeg(y))

FMul(x, y) ==
    CASE IsNaN(x) \/ IsNaN(y) -> NaN
      [] IsFinite(x) /\ IsFinite(y) -> Rat(x.n * y.n, x.d * y.d)
      [] Sign(x) = 0 \/ Sign(y) = 0 -> NaN
      [] OTHER -> Signed(Sign(x) * Sign(y))

\* numpy true division: x/0 is +-Inf (0/0 is NaN) with a warning, no exception
FDiv(x, y) ==
    CASE IsNaN(x) \/ IsNaN(y) -> NaN
      [] IsFinite(x) /\ IsFinite(y) ->
            IF y.n # 0 THEN Rat(x.n * y.d, x.d * y.n)
            ELSE IF x.n = 0 THEN NaN ELSE Signed(x.n)
      [] IsFinite(y) -> Signed(Sign(x) * (IF y.n < 0 THEN -1 ELSE 1))
      [] IsFinite(x) -> Zero
      [] OTHER -> NaN

\* IEEE comparisons: every comparison with NaN is false
Rank(x) == IF x.k = "pinf" THEN 1 ELSE IF x.k = "ninf" THEN -1 ELSE 0

FLt(x, y) ==
    CASE IsNaN(x) \/ IsNaN(y) -> FALSE
      [] IsFinite(x) /\ IsFinite(y) -> x.n * y.d < y.n * x.d
      [] OTHER -> Rank(x) < Rank(y)

FEq(x, y) == ~IsNaN(x) /\ ~IsNaN(y) /\ x = y

FLe(x, y) == FLt(x, y) \/ FEq(x, y)

\* np.clip(x, 0., 1.): NaN stays NaN
FClip(x) ==
    CASE IsNaN(x) -> NaN
      [] FLt(x, Zero) -> Zero
      [] FLt(One, x) -> One
      [] OTHER -> x

(***************************************************************************)
(* np.log as a fixed-point base-2 logarithm.  Exponent(n, d) is the        *)
(* integer part of log2(n/d); FracBits squares the mantissa (kept to       *)
(* MantBits bits) once per fractional bit.  The result is monotone and     *)
(* Log2Fix(1, 1) = 0.                                                      *)
(***************************************************************************)
RECURSIVE Exponent(_, _)
Exponent(n, d) ==
    IF n >= 2 * d THEN 1 + Exponent(n, 2 * d)
    ELSE IF n < d THEN Exponent(2 * n, d) - 1
    ELSE 0

Mantissa(n, d) ==
    LET e == Exponent(n, d)
    IN IF e >= 0 THEN (n * Pow2(MantBits)) \div (d * Pow2(e))
       ELSE (n * Pow2(MantBits - e)) \div d

RECURSIVE FracBits(_, _)
FracBits(m, i) ==
    IF i = 0 THEN 0
    ELSE LET s == (m * m) \div Pow2(MantBits)
         IN IF s >= Pow2(MantBits + 1)
            THEN Pow2(i - 1) + FracBits(s \div 2, i - 1)
            ELSE FracBits(s, i - 1)

Log2Fix(n, d) ==
    Exponent(n, d) * Pow2(LogFracBits) + FracBits(Mantissa(n, d), LogFracBits)

FLog(x) ==
    CASE IsNaN(x) -> NaN
      [] x.k = "pinf" -> PInf
      [] x.k = "ninf" -> NaN
      [] x.n < 0 -> NaN
      [] x.n = 0 -> NInf
      [] OTHER -> Rat(Log2Fix(x.n, x.d), Pow2(LogFracBits))

(***************************************************************************)
(* Fits_images.ipynb: logScaleImage.                                       *)
(***************************************************************************)
\* a percentile is held in units of 1/PctUnit percent: 10. and 99.95
PctUnit == 20
LowerPercentile == 200
UpperPercentile == 1999

RECURSIVE Insert(_, _)
Insert(x, s) ==
    IF s = <<>> THEN <<x>>
    ELSE IF FLe(x, Head(s)) THEN <<x>> \o s
    ELSE <<Head(s)>> \o Insert(x, Tail(s))

RECURSIVE Sorted(_)
Sorted(s) == IF s = <<>> THEN <<>> ELSE Insert(Head(s), Sorted(Tail(s)))

\* values[np.isfinite(values)]
FiniteValues(image) == SelectSeq(image, IsFinite)

\* np.percentile of sorted, non-empty s: linear interpolation between the
\* two samples around the virtual index pct/100 * (n - 1)
Percentile(s, pct) ==
    LET full == 100 * PctUnit
        pos == pct * (Len(s) - 1)
        lo == pos \div full
        rem == pos % full
    IN IF rem = 0 THEN s[lo + 1]
       ELSE FAdd(s[lo + 1], FMul(Rat(rem, full), FSub(s[lo + 2], s[lo + 1])))

\* AsymmetricPercentileInterval(10., 99.95).get_limits(image); the
\* percentile of no value at all is NaN
get_limits(image) ==
    LET v == Sorted(FiniteValues(image))
    IN IF v = <<>> THEN <<NaN, NaN>>
       ELSE <<Percentile(v, LowerPercentile), Percentile(v, UpperPercentile)>>

\* a = vmax/vmin - 1
StretchCoefficient(vmin, vmax) == FSub(FDiv(vmax, vmin), One)

\* reagon(image): subtract vmin, divide by vmax - vmin unless that is 0,
\* clip to [0, 1]; the result is a new array
IntervalCall(image, vmin, vmax) ==
    LET width == FSub(vmax, vmin)
    IN [p \in DOMAIN image |->
          LET shifted == FSub(image[p], vmin)
          IN FClip(IF FEq(width, Zero) THEN shifted ELSE FDiv(shifted, width))]

\* LogStretch(a)(values): clip, then log(a x + 1) / log(a + 1)
LogStretch(a, values) ==
    [p \in DOMAIN values |->
        FDiv(FLog(FAdd(FMul(FClip(values[p]), a), One)), FLog(FAdd(a, One)))]

\* the whole function: what it returns; it raises nothing and writes to no
\* array it was given
logScaleImage(image) ==
    LET lim == get_limits(image)
        a == StretchCoefficient(lim[1], lim[2])
    IN [image_scaled |-> LogStretch(a, IntervalCall(image, lim[1], lim[2])),
        vmin |-> lim[1], vmax |-> lim[2], a |-> a]

(***************************************************************************)
(* Fits_images.ipynb: colorize.                                            *)
(***************************************************************************)
Colors == {"red", "lime"}

\* cc.to_rgb(color)
to_rgb(color) ==
    CASE color = "red" -> <<One, Zero, Zero>>
      [] OTHER -> <<Zero, One, Zero>>

\* the image left as it is, pixels without data included
Unsanitized(img) == img

\* img[~np.isfinite(img)] = 0.0
Sanitize(img) == [p \in DOMAIN img |-> IF IsFinite(img[p]) THEN img[p] ELSE Zero]

\* rgb * img, of shape 3 x pixels
Layer(rgb, img) == [ch \in 1..3 |-> [p \in DOMAIN img |-> FMul(rgb[ch], img[p])]]

\* a multiply blend in place of the screen blend
Multiply(base, layer) ==
    [ch \in 1..3 |-> [p \in DOMAIN base[ch] |-> FMul(base[ch][p], layer[ch][p])]]

\* 1 - ((1 - base) * (1 - layer))
Screen(base, layer) ==
    [ch \in 1..3 |-> [p \in DOMAIN base[ch] |->
        FSub(One, FMul(FSub(One, base[ch][p]), FSub(One, layer[ch][p])))]]

RECURSIVE ScreenFold(_, _)
ScreenFold(base, layers) ==
    IF layers = <<>> THEN base
    ELSE ScreenFold(Screen(base, Head(layers)), Tail(layers))

\* np.rollaxis(base, 0, 3): pixels x 3
RollAxis(base) == [p \in DOMAIN base[1] |-> [ch \in 1..3 |-> base[ch][p]]]

\* the count of colours compared only after the loop over the images
colorize_late_assert(heap, args, colors) ==
    LET passed == {args[i] : i \in DOMAIN args}
        after == [k \in DOMAIN heap |->
                    IF k \in passed THEN Sanitize(heap[k]) ELSE heap[k]]
        images == [i \in DOMAIN args |->
                     Layer(to_rgb(colors[i]), after[args[i]])]
    IN IF Len(args) # Len(colors)
       THEN [arrays |-> after, outcome |-> "AssertionError", rgb |-> <<>>]
       ELSE IF Len(args) = 0
       THEN [arrays |-> after, outcome |-> "IndexError", rgb |-> <<>>]
       ELSE [arrays |-> after, outcome |-> "returned",
             rgb |-> RollAxis(ScreenFold(images[1], Tail(images)))]

\* the whole function on the session's arrays `heap`, `args` naming the
\* arrays passed: the arrays afterwards, the outcome and the composite
colorize(heap, args, colors) ==
    IF Len(args) # Len(colors)
    THEN [arrays |-> heap, outcome |-> "AssertionError", rgb |-> <<>>]
    ELSE LET passed == {args[i] : i \in DOMAIN args}
             after == [k \in DOMAIN heap |->
                         IF k \in passed THEN Sanitize(heap[k]) ELSE heap[k]]
             images == [i \in DOMAIN args |->
                          Layer(to_rgb(colors[i]), after[args[i]])]
         IN IF Len(args) = 0
            THEN [arrays |-> after, outcome |-> "IndexError", rgb |-> <<>>]
            ELSE [arrays |-> after, outcome |-> "returned",
                  rgb |-> RollAxis(ScreenFold(images[1], Tail(images)))]

(***************************************************************************)
(* unnamed/part_000: cov_to_ellipse.  A covariance matrix [[a, b], [b, c]] *)
(* is the triple <<a, b, c>> of integers.  The matrices drawn are those    *)
(* whose eigenvalues are rational ((a - c)^2 + 4 b^2 is a square), so the  *)
(* decomposition is exact.  A length is held as the number it is the       *)
(* non-negative square root of, an angle as the primitive integer          *)
(* direction <<x, y>> it points to (atan2(y, x), in (-180, 180]).          *)
(***************************************************************************)
\* largest variance and largest covariance (in absolute value) drawn
MaxVar == 5
MaxCov == 2

ISqrt(n) == CHOOSE k \in 0..n : k * k <= n /\ n < (k + 1) * (k + 1)

Discriminant(cov) ==
    (cov[1] - cov[3]) * (cov[1] - cov[3]) + 4 * cov[2] * cov[2]

\* the direction of v, in lowest terms; the zero vector points along +x
\* (arctan2(0, 0) = 0)
Primitive(v) ==
    LET g == Gcd(Abs(v[1]), Abs(v[2]))
    IN IF g = 0 THEN <<1, 0>> ELSE <<v[1] \div g, v[2] \div g>>

\* a decomposition listing the smaller singular value first
svd_ascending(cov, flip, swap) ==
    LET a == cov[1]
        b == cov[2]
        k == ISqrt(Discriminant(cov))
        hi == a + cov[3] + k
        lo == a + cov[3] - k
        loFirst == Abs(lo) < Abs(hi) \/ (Abs(hi) = Abs(lo) /\ ~swap)
        first == IF loFirst THEN lo ELSE hi
        second == IF loFirst THEN hi ELSE lo
        vec == IF b # 0 THEN <<2 * b, first - 2 * a>>
               ELSE IF first = 2 * a THEN <<1, 0>> ELSE <<0, 1>>
    IN [eigvec |-> IF b # 0 /\ flip THEN <<-vec[1], -vec[2]>> ELSE vec,
        eigval |-> <<Rat(Abs(first), 2), Rat(Abs(second), 2)>>]

\* sl.svd(cov): the singular values, largest first, and the first column
\* of U.  For a symmetric matrix the singular values are the absolute
\* values of the eigenvalues (a + c +- k)/2 and the columns of U are
\* eigenvectors.  What the decomposition leaves open is the library's
\* choice: the sign of the column (`flip`) and, for two equal singular
\* values, which comes first (`swap`).  A diagonal matrix is passed
\* through: its columns are the unit vectors.
svd(cov, flip, swap) ==
    LET a == cov[1]
        b == cov[2]
        k == ISqrt(Discriminant(cov))
        hi == a + cov[3] + k
        lo == a + cov[3] - k
        hiFirst == Abs(hi) > Abs(lo) \/ (Abs(hi) = Abs(lo) /\ ~swap)
        first == IF hiFirst THEN hi ELSE lo
        second == IF hiFirst THEN lo ELSE hi
        vec == IF b # 0 THEN <<2 * b, first - 2 * a>>
               ELSE IF first = 2 * a THEN <<1, 0>> ELSE <<0, 1>>
    IN [eigvec |-> IF b # 0 /\ flip THEN <<-vec[1], -vec[2]>> ELSE vec,
        eigval |-> <<Rat(Abs(first), 2), Rat(Abs(second), 2)>>]

\* the arguments of arctan2 taken in the other order
arctan2_swapped(y, x) == Primitive(<<y, x>>)

\* np.arctan2(y, x), np.degrees of it
arctan2(y, x) == Primitive(<<x, y>>)

\* np.sqrt(s): NaN below 0
sqrt(s) ==
    IF FLt(s, Zero) THEN [nan |-> TRUE, of |-> Zero] ELSE [nan |-> FALSE, of |-> s]

\* the length itself, not doubled
Once(r) == r

\* 2 * r for a length r
Twice(r) == IF r.nan THEN r ELSE [r EXCEPT !.of = FMul(Num(4), @)]

\* the whole function: Ellipse(xy=pos, width=width, height=height, angle=theta)
cov_to_ellipse(cov, pos, flip, swap) ==
    LET d == svd(cov, flip, swap)
    IN [xy |-> pos,
        width |-> Twice(sqrt(d.eigval[1])),
        height |-> Twice(sqrt(d.eigval[2])),
        angle |-> arctan2(d.eigvec[2], d.eigvec[1])]

(***************************************************************************)
(* The notebook session of Fits_images.ipynb.  `arrays` are the            *)
(* single-band arrays the session holds under their names: the loaded      *)
(* image and, once logScaleImage has returned, image_scaled (<<>> while    *)
(* the name is unbound).  `call` records the call a cell has just made:     *)
(* its arguments, how it ended ("returned" or the exception raised) and,   *)
(* for logScaleImage, the limits and the coefficient it computed (which    *)
(* the caller is handed only with return_full).  `derived` keeps, of the   *)
(* last call of logScaleImage an earlier cell made, the image it was given *)
(* and the limits and coefficient it computed.                             *)
(***************************************************************************)
VARIABLES arrays, call, ellip, plot, derived

\* raw pixel counts of a loaded image; NaN marks a pixel without data
PixelValues == {Num(-1), Num(0), Num(1), Num(2), NaN}

\* every operation is elementwise or sorts the pixels first, so a loaded
\* image lists its pixels in rising order, the pixels without data last
InOrder(x, y) == IsNaN(y) \/ FLe(x, y)
LoadedImages ==
    {image \in [1..NPix -> PixelValues] :
        \A p \in 1..(NPix - 1) : InOrder(image[p], image[p + 1])}

Names == {"image", "image_scaled"}
Bound == {name \in Names : arrays[name] # <<>>}

RECURSIVE SeqsUpTo(_, _)
SeqsUpTo(S, n) ==
    IF n = 0 THEN {<<>>}
    ELSE LET shorter == SeqsUpTo(S, n - 1)
         IN shorter \cup {Append(s, x) : s \in {t \in shorter : Len(t) = n - 1}, x \in S}

NoCall ==
    [op |-> "none", args |-> <<>>, colors |-> <<>>, return_full |-> FALSE,
     outcome |-> "none", vmin |-> NaN, vmax |-> NaN, a |-> NaN, rgb |-> <<>>]

NoEllipse ==
    [outcome |-> "none", cov |-> <<0, 0, 0>>, pos |-> <<0, 0>>,
     patch |-> [xy |-> <<0, 0>>, width |-> sqrt(Zero), height |-> sqrt(Zero),
                angle |-> <<1, 0>>]]

\* no cell has called logScaleImage yet
NoDerived == [image |-> <<>>, vmin |-> NaN, vmax |-> NaN, a |-> NaN]

\* plot_ellipse has not been called: no table, no axes, nothing drawn
NoPlot ==
    [pc |-> "none", t |-> <<>>, ax |-> "None", row |-> 0,
     artists |-> [axes \in {"gca", "ax"} |-> <<>>]]

\* image = hdu[0].data
Init ==
    /\ \E image \in LoadedImages : arrays = [image |-> image, image_scaled |-> <<>>]
    /\ call = NoCall
    /\ ellip = NoEllipse
    /\ plot = NoPlot
    /\ derived = NoDerived

\* a cell makes one call, out of a state where no call is being looked at
Idle == call.op = "none"

\* a call that takes its limits from the array scaled before, when there is
\* one, instead of from the image it is given
CallLogScaleImageStale(return_full) ==
    /\ Idle
    /\ LET source == IF arrays.image_scaled # <<>> THEN arrays.image_scaled
                     ELSE arrays.image
           limits == get_limits(source)
           a == StretchCoefficient(limits[1], limits[2])
       IN /\ arrays' = [arrays EXCEPT !.image_scaled =
                          LogStretch(a, IntervalCall(arrays.image, limits[1], limits[2]))]
          /\ call' = [NoCall EXCEPT !.op = "logScaleImage", !.args = <<"image">>,
                         !.return_full = return_full, !.outcome = "returned",
                         !.vmin = limits[1], !.vmax = limits[2], !.a = a]
    /\ UNCHANGED derived

\* image_scaled = logScaleImage(image) or, with return_full,
\* image_scaled, vmin, vmax, scale = logScaleImage(image, return_full=True)
CallLogScaleImage(return_full) ==
    /\ Idle
    /\ LET r == logScaleImage(arrays.image)
       IN /\ arrays' = [arrays EXCEPT !.image_scaled = r.image_scaled]
          /\ call' = [NoCall EXCEPT !.op = "logScaleImage", !.args = <<"image">>,
                         !.return_full = return_full, !.outcome = "returned",
                         !.vmin = r.vmin, !.vmax = r.vmax, !.a = r.a]
    /\ UNCHANGED derived

\* colorize(arrays[args[1]], ..., colors=colors)
CallColorize(args, colors) ==
    /\ Idle
    /\ LET r == colorize(arrays, args, colors)
       IN /\ arrays' = r.arrays
          /\ call' = [NoCall EXCEPT !.op = "colorize", !.args = args,
                         !.colors = colors, !.outcome = r.outcome, !.rgb = r.rgb]
    /\ UNCHANGED derived

\* the session goes on to its next cell: the finished call is history
NextCell ==
    /\ ~Idle
    /\ call' = NoCall
    /\ derived' = IF call.op = "logScaleImage"
                  THEN [image |-> arrays.image, vmin |-> call.vmin,
                        vmax |-> call.vmax, a |-> call.a]
                  ELSE derived
    /\ UNCHANGED arrays

Next ==
    /\ \/ \E return_full \in BOOLEAN : CallLogScaleImage(return_full)
       \/ \E args \in SeqsUpTo(Bound, MaxArgs), colors \in SeqsUpTo(Colors, MaxArgs) :
             CallColorize(args, colors)
       \/ NextCell
    /\ UNCHANGED <<ellip, plot>>

vars == <<arrays, call, ellip, plot, derived>>

Spec == Init /\ [][Next]_vars

(***************************************************************************)
(* The notebook session of unnamed/part_000: calls of cov_to_ellipse.      *)
(* `ellip` records the last call and the Ellipse patch it returned.        *)
(***************************************************************************)
Covariances ==
    {cov \in (0..MaxVar) \X (-MaxCov..MaxCov) \X (0..MaxVar) :
        ISqrt(Discriminant(cov)) * ISqrt(Discriminant(cov)) = Discriminant(cov)}

Positions == {<<0, 0>>, <<2, 3>>}

EllipseInit ==
    /\ arrays = [image |-> <<>>, image_scaled |-> <<>>]
    /\ call = NoCall
    /\ ellip = NoEllipse
    /\ plot = NoPlot
    /\ derived = NoDerived

\* ellip = cov_to_ellipse(cov, pos)
CallCovToEllipse(cov, pos, flip, swap) ==
    /\ ellip' = [outcome |-> "returned", cov |-> cov, pos |-> pos,
                 patch |-> cov_to_ellipse(cov, pos, flip, swap)]
    /\ UNCHANGED <<arrays, call, plot, derived>>

EllipseNext ==
    \E cov \in Covariances, pos \in Positions, flip \in BOOLEAN, swap \in BOOLEAN :
        CallCovToEllipse(cov, pos, flip, swap)

EllipseSpec == EllipseInit /\ [][EllipseNext]_vars

(***************************************************************************)
(* plot_ellipse(t, ax): one Ellipse per row of the table t, added to the   *)
(* axes.  `plot` holds the call: the table, the axes argument ("None" or   *)
(* the axes "ax"), the number of rows the loop has done and the artists    *)
(* of the current axes "gca" and of "ax", in the order they were added.    *)
(***************************************************************************)
MaxRows == 2

\* the columns sx and sy of the table
Sigmas == {1, 2}

\* the correlation column pxy of the table
Correlations == {Num(-1), Num(0), Rat(1, 2)}

\* row['pxy'] * row['sx'] * row['sy']
row_covariance(row) == FMul(FMul(row.pxy, Num(row.sx)), Num(row.sy))

\* np.array([[sx**2, pxy*sx*sy], [pxy*sx*sy, sy**2]]) as <<c11, c12, c22>>
row_cov(row) == <<row.sx * row.sx, row_covariance(row).n, row.sy * row.sy>>

\* [row['x'], row['y']]
row_pos(row) == <<row.x, row.y>>

\* the rows a table can hold: those whose covariance has whole entries and
\* axes of rational length
Rows ==
    {row \in [x : {0, 2}, y : {0, 3}, sx : Sigmas, sy : Sigmas,
              pxy : Correlations] :
        /\ <<row.x, row.y>> \in Positions
        /\ row_covariance(row).d = 1
        /\ ISqrt(Discriminant(row_cov(row))) * ISqrt(Discriminant(row_cov(row)))
              = Discriminant(row_cov(row))}

PlotInit ==
    /\ arrays = [image |-> <<>>, image_scaled |-> <<>>]
    /\ call = NoCall
    /\ ellip = NoEllipse
    /\ derived = NoDerived
    /\ \E t \in SeqsUpTo(Rows, MaxRows), ax \in {"None", "ax"} :
          plot = [NoPlot EXCEPT !.pc = "called", !.t = t, !.ax = ax]

\* if ax is None: ax = plt.gca()
PlotEllipseEnter ==
    /\ plot.pc = "called"
    /\ plot' = [plot EXCEPT !.pc = "loop",
                            !.ax = IF plot.ax = "None" THEN "gca" ELSE plot.ax]
    /\ UNCHANGED <<arrays, call, ellip, derived>>

\* the new artist put before those already on the axes
add_artist_first(artists, patch) == <<patch>> \o artists

\* ax.add_artist(ellip)
add_artist(artists, patch) == Append(artists, patch)

\* one turn of `for row in t`: the covariance of the row, its ellipse, the
\* ellipse added to the axes
PlotEllipseRow(flip, swap) ==
    /\ plot.pc = "loop"
    /\ plot.row < Len(plot.t)
    /\ LET row == plot.t[plot.row + 1]
           cov == row_cov(row)
           patch == cov_to_ellipse(cov, row_pos(row), flip, swap)
       IN /\ ellip' = [outcome |-> "returned", cov |-> cov, pos |-> row_pos(row),
                       patch |-> patch]
          /\ plot' = [plot EXCEPT !.row = @ + 1,
                                  !.artists[plot.ax] = add_artist(@, patch)]
    /\ UNCHANGED <<arrays, call, derived>>

\* the loop is over: plot_ellipse returns None
PlotEllipseReturn ==
    /\ plot.pc = "loop"
    /\ plot.row = Len(plot.t)
    /\ plot' = [plot EXCEPT !.pc = "returned"]
    /\ UNCHANGED <<arrays, call, ellip, derived>>

PlotNext ==
    \/ PlotEllipseEnter
    \/ \E flip \in BOOLEAN, swap \in BOOLEAN : PlotEllipseRow(flip, swap)
    \/ PlotEllipseReturn

PlotSpec == PlotInit /\ [][PlotNext]_vars

(***************************************************************************)
(* Claims about logScaleImage.                                             *)
(***************************************************************************)
Scaled(p) == arrays.image_scaled[p]
Raw(p) == arrays.image[p]
AfterLogScale == call.op = "logScaleImage"

\* C1: whenever the limits satisfy vmin < vmax, every finite pixel of the
\* returned array lies in [0, 1], a pixel equal to vmin maps to exactly 0
\* and a pixel equal to vmax maps to exactly 1.
C1_UnitRange ==
    (AfterLogScale /\ FLt(call.vmin, call.vmax)) =>
        /\ call.outcome = "returned"
        /\ \A p \in 1..NPix :
              IsFinite(Raw(p)) =>
                 /\ FLe(Zero, Scaled(p)) /\ FLe(Scaled(p), One)
                 /\ FEq(Raw(p), call.vmin) => FEq(Scaled(p), Zero)
                 /\ FEq(Raw(p), call.vmax) => FEq(Scaled(p), One)

\* C2: whenever the limits satisfy vmin >= vmax, logScaleImage raises an
\* error instead of returning.
C2_DegenerateRaises ==
    (AfterLogScale /\ FLe(call.vmax, call.vmin)) => call.outcome # "returned"

\* C3: whenever vmin = 0 and vmax > 0, the division by zero in
\* a = vmax/vmin - 1 is raised as an error: no stretch with a non-finite
\* coefficient is built and nothing is returned.
C3_ZeroVminRaises ==
    (AfterLogScale /\ FEq(call.vmin, Zero) /\ FLt(Zero, call.vmax)) =>
        IsFinite(call.a) /\ call.outcome # "returned"

\* C8: within one call with vmin < vmax, the returned pixels are ordered as
\* the finite raw pixels are: p <= q implies output(p) <= output(q).
C8_Monotone ==
    (AfterLogScale /\ FLt(call.vmin, call.vmax)) =>
        \A p, q \in 1..NPix :
            (IsFinite(Raw(p)) /\ IsFinite(Raw(q)) /\ FLe(Raw(p), Raw(q))) =>
                FLe(Scaled(p), Scaled(q))

(***************************************************************************)
(* Claims about cov_to_ellipse.                                            *)
(***************************************************************************)
IsPSD(cov) == cov[1] >= 0 /\ cov[3] >= 0 /\ cov[1] * cov[3] - cov[2] * cov[2] >= 0
Called == ellip.outcome # "none"

\* C4: a symmetric matrix that is not positive semi-definite makes
\* cov_to_ellipse raise an error; no ellipse is returned for it.
C4_IndefiniteRaises ==
    (Called /\ ~IsPSD(ellip.cov)) => ellip.outcome # "returned"

\* C5: for a positive semi-definite matrix the ellipse has
\* width >= height >= 0, the width being the axis of the larger eigenvalue
\* and the height that of the smaller: (width/2)^2 and (height/2)^2 are the
\* two eigenvalues (their sum is the trace, their product the determinant).
C5_WidthHeight ==
    (Called /\ IsPSD(ellip.cov)) =>
        LET w == ellip.patch.width
            h == ellip.patch.height
            cov == ellip.cov
        IN /\ ellip.outcome = "returned"
           /\ ~w.nan /\ ~h.nan
           /\ FLe(Zero, h.of) /\ FLe(h.of, w.of)
           /\ FAdd(w.of, h.of) = Num(4 * (cov[1] + cov[3]))
           /\ FMul(w.of, h.of) = Num(16 * (cov[1] * cov[3] - cov[2] * cov[2]))

C5_Witness ==
    /\ ellip.outcome = "returned" /\ IsPSD(ellip.cov) /\ ellip.cov[2] # 0
    /\ FLt(Zero, ellip.patch.height.of)
    /\ FLt(ellip.patch.height.of, ellip.patch.width.of)

\* R(angle) diag((width/2)^2, (height/2)^2) R(angle)^T as <<c11, c12, c22>>,
\* with cos and sin of the angle taken from the direction <<x, y>>
Rebuilt(width, height, angle) ==
    LET x == angle[1]
        y == angle[2]
        norm2 == Num(x * x + y * y)
        l1 == FDiv(width.of, Num(4))
        l2 == FDiv(height.of, Num(4))
    IN <<FDiv(FAdd(FMul(l1, Num(x * x)), FMul(l2, Num(y * y))), norm2),
         FDiv(FMul(FSub(l1, l2), Num(x * y)), norm2),
         FDiv(FAdd(FMul(l1, Num(y * y)), FMul(l2, Num(x * x))), norm2)>>

AsFloats(cov) == <<Num(cov[1]), Num(cov[2]), Num(cov[3])>>
Opposite(angle) == <<-angle[1], -angle[2]>>

\* C6: for a positive semi-definite matrix C, the matrix rebuilt from the
\* returned width, height and angle is C, and it is the same for the angle
\* turned by 180 degrees (the other sign of the first eigenvector).
C6_RoundTrip ==
    (Called /\ IsPSD(ellip.cov)) =>
        LET e == ellip.patch
        IN /\ ~e.width.nan /\ ~e.height.nan
           /\ Rebuilt(e.width, e.height, e.angle) = AsFloats(ellip.cov)
           /\ Rebuilt(e.width, e.height, Opposite(e.angle)) = AsFloats(ellip.cov)

C6_Witness ==
    /\ ellip.outcome = "returned" /\ ellip.cov = <<5, 2, 2>>
    /\ ellip.patch.angle = <<-2, -1>>

\* C7: for diag(sx^2, sy^2) with sx > sy >= 0 the ellipse sits at the given
\* center with width 2 sx, height 2 sy and angle 0 modulo 180 degrees; for
\* [[4, 0], [0, 1]] at (2, 3) it is center (2, 3), width 4, height 2,
\* angle 0.
C7_Diagonal ==
    /\ \A sx, sy \in 0..MaxVar :
          (Called /\ sx > sy /\ ellip.cov = <<sx * sx, 0, sy * sy>>) =>
              /\ ellip.outcome = "returned"
              /\ ellip.patch.xy = ellip.pos
              /\ ellip.patch.width = [nan |-> FALSE, of |-> Num(2 * sx * 2 * sx)]
              /\ ellip.patch.height = [nan |-> FALSE, of |-> Num(2 * sy * 2 * sy)]
              /\ ellip.patch.angle[2] = 0
    /\ (Called /\ ellip.cov = <<4, 0, 1>> /\ ellip.pos = <<2, 3>>) =>
          ellip.patch = [xy |-> <<2, 3>>,
                         width |-> [nan |-> FALSE, of |-> Num(16)],
                         height |-> [nan |-> FALSE, of |-> Num(4)],
                         angle |-> <<1, 0>>]

C7_Witness ==
    ellip.outcome = "returned" /\ ellip.cov = <<4, 0, 1>> /\ ellip.pos = <<2, 3>>

(***************************************************************************)
(* Claims about colorize.                                                  *)
(***************************************************************************)
AfterColorize == call.op = "colorize"

\* 1 - (1 - x_1) ... (1 - x_n) for the layers' values x_i of one channel of
\* one pixel, taken from the arrays as the call left them
RECURSIVE Unscreened(_, _, _)
Unscreened(i, ch, p) ==
    IF i = 0 THEN One
    ELSE FMul(Unscreened(i - 1, ch, p),
              FSub(One, FMul(to_rgb(call.colors[i])[ch], arrays[call.args[i]][p])))

C10_NoMutation ==
    [][/\ call'.op = "colorize" => arrays' = arrays
       /\ call'.op = "logScaleImage" => arrays'.image = arrays.image]_vars

(***************************************************************************)
(* Claims about plot_ellipse.                                              *)
(***************************************************************************)
Drawn == plot.artists[plot.ax]

\* [[sx^2, pxy sx sy], [pxy sx sy, sy^2]] of a row, as <<c11, c12, c22>>
RowMatrix(row) ==
    <<Num(row.sx * row.sx), FMul(row.pxy, Num(row.sx * row.sy)), Num(row.sy * row.sy)>>

\* C11: for any finite table, plot_ellipse draws exactly one ellipse per
\* row, in input order: at every point of the call the axes hold one
\* ellipse for each row done, the i-th centred at the i-th row's (x, y) and
\* with the axes and angle of that row's covariance only; when the call
\* returns every row has its ellipse, and nothing is drawn elsewhere.
C11_OnePerRow ==
    plot.pc \in {"loop", "returned"} =>
        /\ Len(Drawn) = plot.row
        /\ plot.pc = "returned" => Len(Drawn) = Len(plot.t)
        /\ \A axes \in {"gca", "ax"} \ {plot.ax} : plot.artists[axes] = <<>>
        /\ \A i \in 1..Len(Drawn) :
              /\ Drawn[i].xy = <<plot.t[i].x, plot.t[i].y>>
              /\ ~Drawn[i].width.nan /\ ~Drawn[i].height.nan
              /\ FLe(Drawn[i].height.of, Drawn[i].width.of)
              /\ Rebuilt(Drawn[i].width, Drawn[i].height, Drawn[i].angle)
                    = RowMatrix(plot.t[i])

C11_Witness ==
    /\ plot.pc = "returned" /\ Len(plot.t) = 2 /\ Len(Drawn) = 2
    /\ plot.t[1].x # plot.t[2].x
    /\ RowMatrix(plot.t[1]) # RowMatrix(plot.t[2])
    /\ plot.t[2].pxy = Rat(1, 2)

C13_MismatchFailsFirst ==
    [][(call'.op = "colorize" /\ Len(call'.args) # Len(call'.colors)) =>
          /\ call'.outcome = "AssertionError"
          /\ call'.rgb = <<>>
          /\ arrays' = arrays]_vars

C13_Witness ==
    /\ AfterColorize /\ Len(call.args) # Len(call.colors)
    /\ call.outcome = "AssertionError"
    /\ \E i \in DOMAIN call.args, p \in 1..NPix : IsNaN(arrays[call.args[i]][p])

InUnit(x) == IsFinite(x) /\ FLe(Zero, x) /\ FLe(x, One)

\* the layers of the call, from the arrays as the call left them
Layers == [i \in DOMAIN call.args |-> Layer(to_rgb(call.colors[i]), arrays[call.args[i]])]

\* the accumulated base once the layers up to the k-th are screened in
BaseAfter(k) == ScreenFold(Layers[1], SubSeq(Layers, 2, k))

\* C14: when the finite pixels of all N >= 1 images passed lie in [0, 1]
\* (pixels without data allowed; the colours' channels are in [0, 1]),
\* every channel of every pixel of the composite is finite and in [0, 1],
\* and so is the accumulated base after each screen step of the fold.
C14_CompositeInUnit ==
    (/\ AfterColorize /\ call.outcome = "returned"
     /\ \A i \in DOMAIN call.args, p \in 1..NPix :
           IsFinite(arrays[call.args[i]][p]) => InUnit(arrays[call.args[i]][p])) =>
        /\ \A c \in DOMAIN call.colors, ch \in 1..3 : InUnit(to_rgb(call.colors[c])[ch])
        /\ \A p \in 1..NPix, ch \in 1..3 : InUnit(call.rgb[p][ch])
        /\ \A k \in 1..Len(call.args), p \in 1..NPix, ch \in 1..3 :
              InUnit(BaseAfter(k)[ch][p])

C14_Witness ==
    /\ AfterColorize /\ call.outcome = "returned" /\ Len(call.args) = 2
    /\ \A i \in DOMAIN call.args, p \in 1..NPix : InUnit(arrays[call.args[i]][p])
    /\ \E p \in 1..NPix, ch \in 1..3 :
          FLt(Zero, call.rgb[p][ch]) /\ FLt(call.rgb[p][ch], One)
====
